---- MODULE Spec2Model ----
(***************************************************************************)
(* SimpleCache<T> of src/src/cache.ts: a Map from string keys to entries   *)
(* {data, timestamp, ttl}, bounded by maxSize through ensureCapacity,      *)
(* expired lazily by get and proactively by cleanup (called by a           *)
(* setInterval timer), with hit/miss counters.                             *)
(*                                                                         *)
(* The JavaScript Map is modelled as the sequence of its entries in        *)
(* insertion order: Map.prototype.set on a present key keeps the key's     *)
(* position, on an absent key appends; keys().next().value is the first    *)
(* element, undefined on an empty map.                                     *)
(*                                                                         *)
(* Around the cache: the triggerReview and getReviewStatus tool handlers   *)
(* of src/src/index.ts over CodeRabbitClient, each split at the await of   *)
(* its remote call, and the methods of GitHubIntegration                   *)
(* (src/src/github-integration.ts) over the GitHub API and the local git   *)
(* repository.                                                             *)
(***************************************************************************)
EXTENDS Integers, Sequences, FiniteSets, TLC

\* ------------------------------------------------------------------ bounds
\* Largest maxSize a cache is constructed with.
MaxCap == 2
\* Date.now() ranges over 0..MaxTime.
MaxTime == 2
\* Largest ttl passed to set; the constructor's defaultTTL.
MaxTTL == 2
\* Largest number of lookups (get or has) between two resets of the counters.
MaxGets == 2

\* ------------------------------------------------------------------ values
KeyNames == <<"k1", "k2", "k3", "k4", "k5", "k6">>
\* One more key than the largest capacity, so that a full cache can always be
\* offered a key it does not hold.
NonEmptyKeys == {KeyNames[i] : i \in 1..(MaxCap + 1)}
\* The empty string, the only string that is falsy in `if (firstKey)`.
EmptyKey == ""
\* keys().next().value of an empty Map.
UndefinedKey == "<undefined>"
\* Cached values are opaque to the cache; two tell a value from another.
Values == {"v1", "v2"}
\* get's `null`.
Null == "null"
\* The `ttl?: number` argument of set when it is omitted.
Undefined == -1
TTLArgs == {Undefined} \cup (0..MaxTTL)
\* No key: the key slot of an operation that takes none, and "nothing evicted".
NoKey == "<none>"
\* The handle setInterval returned, and the value destroy leaves behind.
Armed == "armed"
NoTimer == "null"

\* The branch a repository starts on.
MainBranch == "main"
\* rateLimiter.remaining as the field initialiser sets it.
InitialRemaining == 5000

VARIABLES
    cache,            \* this.cache: the Map's entries in insertion order
    defaultTTL,       \* this.defaultTTL
    maxSize,          \* this.maxSize
    cleanupInterval,  \* this.cleanupInterval: Armed or NoTimer
    hits,             \* this.hits
    misses,           \* this.misses
    now,              \* Date.now()
    last,             \* the most recent step: [op, key, data, ret, evicted, branch]
    gets,             \* history: get calls (has included) since construction,
                      \* clear or destroy
    setLog,           \* history: the keys set so far, while the run is only
                      \* sets of distinct keys and lookups with nothing stale
    pending,          \* index.ts: the remote calls its tool handlers await
    git,              \* the repository simple-git works on:
                      \* [branches, head, clean]
    rateLimiter       \* GitHubIntegration.rateLimiter: [remaining]

vars == <<cache, defaultTTL, maxSize, cleanupInterval, hits, misses, now, last,
          gets, setLog, pending, git, rateLimiter>>

\* What the cache does not touch.
outside == <<pending, git, rateLimiter>>

\* ------------------------------------------------------------ the Map
MapKeys(m) == {m[i].key : i \in 1..Len(m)}

MapHas(m, k) == k \in MapKeys(m)

MapIndex(m, k) == CHOOSE i \in 1..Len(m) : m[i].key = k

MapGet(m, k) == m[MapIndex(m, k)]

\* Map.prototype.delete: the other entries keep their order.
MapDelete(m, k) == SelectSeq(m, LAMBDA e : e.key # k)

\* Map.prototype.set: a present key keeps its place in the order.
MapSet(m, k, e) ==
    IF MapHas(m, k)
    THEN [m EXCEPT ![MapIndex(m, k)] = e]
    ELSE Append(m, e)

\* this.cache.keys().next().value
FirstKey(m) == IF Len(m) = 0 THEN UndefinedKey ELSE m[1].key

\* JavaScript truthiness of a string | undefined.
TruthyKey(k) == k # UndefinedKey /\ k # EmptyKey

\* Variant: `ttl ?? this.defaultTTL`, which keeps a ttl of 0.
TruthyTTLNullish(t) == t # Undefined

\* JavaScript truthiness of a number | undefined (`ttl || this.defaultTTL`).
TruthyTTL(t) == t # Undefined /\ t # 0

\* ------------------------------------------------------------ the cache
Age(e, t) == t - e.timestamp

\* Variant: the comparison written `>=`, which expires an entry at age = ttl.
IsExpiredAtTTL(e, t) == Age(e, t) >= e.ttl

\* `Date.now() - entry.timestamp > entry.ttl`
IsExpired(e, t) == Age(e, t) > e.ttl

\* Variant: the capacity check written `>`, which lets the Map reach
\* maxSize + 1 entries.
EnsureCapacityStrict(m, cap) ==
    IF Len(m) > cap
    THEN LET firstKey == FirstKey(m)
         IN  IF TruthyKey(firstKey) THEN MapDelete(m, firstKey) ELSE m
    ELSE m

\* ensureCapacity(): the Map after the call.
EnsureCapacity(m, cap) ==
    IF Len(m) >= cap
    THEN LET firstKey == FirstKey(m)
         IN  IF TruthyKey(firstKey) THEN MapDelete(m, firstKey) ELSE m
    ELSE m

\* The entry set stores.
NewEntry(k, d, ttl, dflt, t) ==
    [key |-> k, data |-> d, timestamp |-> t,
     ttl |-> IF TruthyTTL(ttl) THEN ttl ELSE dflt]

\* Variant: a full cache makes room by dropping its expired entries, and
\* evicts the first key only when it has none.
SetCacheStaleFirst(m, cap, k, d, ttl, dflt, t) ==
    MapSet(IF Len(m) >= cap /\ \E i \in 1..Len(m) : IsExpired(m[i], t)
           THEN SelectSeq(m, LAMBDA e : ~IsExpired(e, t))
           ELSE EnsureCapacity(m, cap),
           k, NewEntry(k, d, ttl, dflt, t))

\* set(key, data, ttl): the Map after the call.
SetCache(m, cap, k, d, ttl, dflt, t) ==
    MapSet(EnsureCapacity(m, cap), k, NewEntry(k, d, ttl, dflt, t))

\* Variant: get without the expiry check.
GetOutcomeNoExpiry(m, k, t) == IF ~MapHas(m, k) THEN "absent" ELSE "hit"

\* The branch get takes: "absent" (!entry), "expired", or "hit".
GetOutcome(m, k, t) ==
    IF ~MapHas(m, k) THEN "absent"
    ELSE IF IsExpired(MapGet(m, k), t) THEN "expired"
    ELSE "hit"

\* get(key): the value returned.
GetRet(m, k, t) ==
    IF GetOutcome(m, k, t) = "hit" THEN MapGet(m, k).data ELSE Null

\* Variant: a hit moves the entry to the end of the order, as an LRU cache
\* does.
GetCacheLRU(m, k, t) ==
    IF GetOutcome(m, k, t) = "expired" THEN MapDelete(m, k)
    ELSE IF GetOutcome(m, k, t) = "hit"
         THEN Append(MapDelete(m, k), MapGet(m, k))
         ELSE m

\* get(key): the Map after the call.
GetCache(m, k, t) ==
    IF GetOutcome(m, k, t) = "expired" THEN MapDelete(m, k) ELSE m

\* Variant: the expired branch returns null without `this.misses++`.
GetMissesAbsentOnly(m, k, t, ms) ==
    IF GetOutcome(m, k, t) = "absent" THEN ms + 1 ELSE ms

\* get(key): the counters after the call.
GetHits(m, k, t, h) == IF GetOutcome(m, k, t) = "hit" THEN h + 1 ELSE h

GetMisses(m, k, t, ms) == IF GetOutcome(m, k, t) = "hit" THEN ms ELSE ms + 1

\* has(key): `this.get(key) !== null`.
HasRet(m, k, t) == IF GetRet(m, k, t) # Null THEN "true" ELSE "false"

\* Variant: the scan stops at the first expired entry it deletes.
CleanupCacheFirstOnly(m, t) ==
    IF \E i \in 1..Len(m) : IsExpired(m[i], t)
    THEN LET first == CHOOSE i \in 1..Len(m) :
                         /\ IsExpired(m[i], t)
                         /\ \A j \in 1..(i - 1) : ~IsExpired(m[j], t)
         IN  SubSeq(m, 1, first - 1) \o SubSeq(m, first + 1, Len(m))
    ELSE m

\* cleanup(): the Map after the call.
CleanupCache(m, t) == SelectSeq(m, LAMBDA e : ~IsExpired(e, t))

\* Variant: hitRate guarded by `this.hits ? ... : undefined`.
GetStatsFalsyHits(m, cap, h, ms) ==
    LET totalRequests == h + ms
    IN  [size |-> Len(m), maxSize |-> cap, hits |-> h, misses |-> ms,
         hitRate |-> IF h > 0 THEN <<h, totalRequests>> ELSE <<>>]

\* getStats(): hitRate is <<hits, totalRequests>> for hits / totalRequests,
\* and <<>> for undefined.
GetStats(m, cap, h, ms) ==
    LET totalRequests == h + ms
    IN  [size |-> Len(m), maxSize |-> cap, hits |-> h, misses |-> ms,
         hitRate |-> IF totalRequests > 0 THEN <<h, totalRequests>> ELSE <<>>]

\* ------------------------------------------------------------ history
\* A step as its caller sees it: the operation, its key and data arguments,
\* the value returned, the key set evicted, and the branch the code took.
Call(op, k, d, ret, ev, br) ==
    [op |-> op, key |-> k, data |-> d, ret |-> ret, evicted |-> ev, branch |-> br]

\* A step with no key, no data and no result.
Plain(op) == Call(op, NoKey, Null, Null, NoKey, "")

Void == [pure |-> FALSE, keys |-> <<>>]

Range(s) == {s[i] : i \in 1..Len(s)}

\* The key ensureCapacity removed from m, NoKey when it removed none.
Evicted(m, cap) ==
    IF Len(EnsureCapacity(m, cap)) < Len(m) THEN FirstKey(m) ELSE NoKey

SomeExpired(m, t) == \E i \in 1..Len(m) : IsExpired(m[i], t)

\* ------------------------------------------------------------ actions
\* new SimpleCache(defaultTTL, maxSize)
InitCache(sizes) ==
    /\ cache = <<>>
    /\ defaultTTL = MaxTTL
    /\ maxSize \in sizes
    /\ cleanupInterval = Armed
    /\ hits = 0
    /\ misses = 0
    /\ now = 0
    /\ last = Plain("new")
    /\ gets = 0
    /\ setLog = [pure |-> TRUE, keys |-> <<>>]

\* A cache on its own: no tool handler is waiting, and the GitHub integration
\* is as its constructor leaves it.
InitWith(sizes) ==
    /\ InitCache(sizes)
    /\ pending = <<>>
    /\ git = [branches |-> {MainBranch}, head |-> MainBranch, clean |-> TRUE]
    /\ rateLimiter = [remaining |-> InitialRemaining]

Set(k, d, ttl) ==
    /\ cache' = SetCache(cache, maxSize, k, d, ttl, defaultTTL, now)
    /\ last' = Call("set", k, d, Null, Evicted(cache, maxSize),
                    IF TruthyTTL(ttl) THEN "explicit" ELSE "default")
    /\ setLog' = IF setLog.pure /\ k \notin Range(setLog.keys)
                    /\ Len(setLog.keys) <= maxSize
                 THEN [setLog EXCEPT !.keys = Append(@, k)]
                 ELSE Void
    /\ UNCHANGED <<defaultTTL, maxSize, cleanupInterval, hits, misses, now, gets>>
    /\ UNCHANGED outside

Lookup(op, k, ret) ==
    /\ gets < MaxGets
    /\ hits + misses < MaxGets
    /\ cache' = GetCache(cache, k, now)
    /\ hits' = GetHits(cache, k, now, hits)
    /\ misses' = GetMisses(cache, k, now, misses)
    /\ last' = Call(op, k, Null, ret, NoKey, GetOutcome(cache, k, now))
    /\ gets' = gets + 1
    /\ setLog' = IF GetOutcome(cache, k, now) = "expired" THEN Void ELSE setLog
    /\ UNCHANGED <<defaultTTL, maxSize, cleanupInterval, now>>
    /\ UNCHANGED outside

\* Variant: has as a pure predicate, `this.cache.has(key)`.
HasPure(k) ==
    /\ last' = Call("has", k, Null, IF MapHas(cache, k) THEN "true" ELSE "false",
                    NoKey, GetOutcome(cache, k, now))
    /\ UNCHANGED <<cache, defaultTTL, maxSize, cleanupInterval, hits, misses,
                   now, gets, setLog>>
    /\ UNCHANGED outside

Get(k) == Lookup("get", k, GetRet(cache, k, now))

Has(k) == Lookup("has", k, HasRet(cache, k, now))

\* Variant: delete looks the key up through get first.
DeleteCounted(k) ==
    /\ hits + misses < MaxGets
    /\ cache' = MapDelete(cache, k)
    /\ hits' = GetHits(cache, k, now, hits)
    /\ misses' = GetMisses(cache, k, now, misses)
    /\ last' = Call("delete", k, Null, Null, NoKey,
                    IF MapHas(cache, k) THEN "present" ELSE "absent")
    /\ setLog' = Void
    /\ UNCHANGED <<defaultTTL, maxSize, cleanupInterval, now, gets>>
    /\ UNCHANGED outside

Delete(k) ==
    /\ cache' = MapDelete(cache, k)
    /\ last' = Call("delete", k, Null, Null, NoKey,
                    IF MapHas(cache, k) THEN "present" ELSE "absent")
    /\ setLog' = Void
    /\ UNCHANGED <<defaultTTL, maxSize, cleanupInterval, hits, misses, now, gets>>
    /\ UNCHANGED outside

\* Variant: clear without the reset of the statistics.
ClearKeepStats ==
    /\ cache' = <<>>
    /\ last' = Call("clear", NoKey, Null, Null, NoKey,
                    IF hits + misses > 0 THEN "counted" ELSE "")
    /\ setLog' = Void
    /\ UNCHANGED <<defaultTTL, maxSize, cleanupInterval, hits, misses, now, gets>>
    /\ UNCHANGED outside

Clear ==
    /\ cache' = <<>>
    /\ hits' = 0
    /\ misses' = 0
    /\ last' = Call("clear", NoKey, Null, Null, NoKey,
                    IF hits + misses > 0 THEN "counted" ELSE "")
    /\ gets' = 0
    /\ setLog' = Void
    /\ UNCHANGED <<defaultTTL, maxSize, cleanupInterval, now>>
    /\ UNCHANGED outside

\* The branch of last tells a cleanup that found stale entries ("removed")
\* from one that follows, with no step in between, a cleanup that removed
\* some ("again") or none ("idle again").
CleanupBy(op) ==
    /\ cache' = CleanupCache(cache, now)
    /\ last' = Call(op, NoKey, Null, Null, NoKey,
                    IF last.op \in {"cleanup", "sweep"}
                    THEN IF last.branch \in {"removed", "again"}
                         THEN "again" ELSE "idle again"
                    ELSE IF SomeExpired(cache, now) THEN "removed" ELSE "")
    /\ setLog' = Void
    /\ UNCHANGED <<defaultTTL, maxSize, cleanupInterval, hits, misses, now, gets>>
    /\ UNCHANGED outside

\* cleanup() called by the owner of the cache.
Cleanup == CleanupBy("cleanup")

\* Variant: a timer whose callback does not call cleanup.
SweepNoCleanup ==
    /\ cleanupInterval = Armed
    /\ last' = Plain("sweep")
    /\ setLog' = setLog
    /\ UNCHANGED <<cache, defaultTTL, maxSize, cleanupInterval, hits, misses,
                   now, gets>>
    /\ UNCHANGED outside

\* Variant: a timer that clearInterval did not cancel.
SweepUncancelled == CleanupBy("sweep")

\* The setInterval callback `() => this.cleanup()` fires.
Sweep ==
    /\ cleanupInterval = Armed
    /\ CleanupBy("sweep")

\* Variant: destroy without the reset of the statistics.
DestroyKeepStats ==
    /\ cleanupInterval' = NoTimer
    /\ cache' = <<>>
    /\ last' = Call("destroy", NoKey, Null, Null, NoKey,
                    IF last.op = "destroy" THEN "again"
                    ELSE IF cleanupInterval = Armed THEN "armed" ELSE "idle")
    /\ setLog' = Void
    /\ UNCHANGED <<defaultTTL, maxSize, hits, misses, now, gets>>
    /\ UNCHANGED outside

\* `if (this.cleanupInterval)` takes its branch on the first call ("armed")
\* and skips it on a later one ("idle"); "again" is a destroy that follows
\* another with no step in between.
Destroy ==
    /\ cleanupInterval' = NoTimer
    /\ cache' = <<>>
    /\ hits' = 0
    /\ misses' = 0
    /\ last' = Call("destroy", NoKey, Null, Null, NoKey,
                    IF last.op = "destroy" THEN "again"
                    ELSE IF cleanupInterval = Armed THEN "armed" ELSE "idle")
    /\ gets' = 0
    /\ setLog' = Void
    /\ UNCHANGED <<defaultTTL, maxSize, now>>
    /\ UNCHANGED outside

Stats ==
    /\ last' = Call("getStats", NoKey, Null,
                    GetStats(cache, maxSize, hits, misses), NoKey, "")
    /\ setLog' = setLog
    /\ UNCHANGED <<cache, defaultTTL, maxSize, cleanupInterval, hits, misses,
                   now, gets>>
    /\ UNCHANGED outside

\* Date.now() advances between two calls.
Tick ==
    /\ now < MaxTime
    /\ now' = now + 1
    /\ last' = Plain("tick")
    /\ setLog' = IF SomeExpired(cache, now + 1) THEN Void ELSE setLog
    /\ UNCHANGED <<cache, defaultTTL, maxSize, cleanupInterval, hits, misses,
                   gets>>
    /\ UNCHANGED outside

NextWith(keys) ==
    \/ \E k \in keys, d \in Values, ttl \in TTLArgs : Set(k, d, ttl)
    \/ \E k \in keys : Get(k)
    \/ \E k \in keys : Has(k)
    \/ \E k \in keys : Delete(k)
    \/ Clear
    \/ Cleanup
    \/ Sweep
    \/ Destroy
    \/ Stats
    \/ Tick

\* The documented domain: maxSize >= 1 and non-empty keys.
Init == InitWith(1..MaxCap)

Next == NextWith(NonEmptyKeys)

Spec == Init /\ [][Next]_vars

\* setInterval keeps calling its callback while the timer is armed: a sweep
\* that stays possible is eventually taken.
SpecFair == Init /\ [][Next]_vars /\ WF_vars(Sweep)

\* A cache of capacity MaxCap + 1 that its owner only writes to.
InitWide == InitWith({MaxCap + 1})

NextSetOnly ==
    \/ \E k \in NonEmptyKeys, d \in Values, ttl \in TTLArgs : Set(k, d, ttl)
    \/ Tick

SpecSetOnly == InitWide /\ [][NextSetOnly]_vars

\* A cache of capacity 1 whose callers also use the empty string as a key.
KeysWithEmpty == {EmptyKey} \cup {KeyNames[i] : i \in 1..(MaxCap - 1)}

InitEmptyKey == InitWith({1})

NextEmptyKey == NextWith(KeysWithEmpty)

SpecEmptyKey == InitEmptyKey /\ [][NextEmptyKey]_vars

\* A cache constructed with maxSize = 0.
InitZeroCap == InitWith({0})

SpecZeroCap == InitZeroCap /\ [][Next]_vars

\* ------------------------------------------------------------ the server
\* index.ts: the tool handlers around reviewCache. A handler runs up to its
\* `await` of the remote call in one step and resumes in another; other
\* handlers and the timers run in between.

\* Largest number of remote calls awaited at once.
MaxPending == 2

\* The ids the remote API gives its reviews.
ReviewIds == {KeyNames[1], KeyNames[2]}
Repository == "o/r"

\* `pr-${params.repository}-${params.prNumber}`
PrKey(repository, prNumber) ==
    IF repository = Repository /\ prNumber = 1 THEN "pr-o/r-1" ELSE "pr-?"

\* GetReviewStatusSchema: three optional fields.
StatusParams ==
    [reviewId : {UndefinedKey} \cup ReviewIds,
     repository : {UndefinedKey, Repository},
     prNumber : {Undefined, 1}]

\* TriggerReviewSchema: repository, and an optional prNumber.
TriggerParams == [repository : {Repository}, prNumber : {Undefined, 1}]

\* The key getReviewStatus looks up, NoKey when the request forms none.
StatusKey(p) ==
    IF TruthyKey(p.reviewId) THEN p.reviewId
    ELSE IF TruthyKey(p.repository) /\ TruthyTTL(p.prNumber)
         THEN PrKey(p.repository, p.prNumber)
         ELSE NoKey

\* The key triggerReview stores the review under besides its id.
TriggerKey(p) ==
    IF TruthyTTL(p.prNumber) THEN PrKey(p.repository, p.prNumber) ELSE NoKey

\* How a remote call can end: with a review, with null, or rejected.
RemoteOutcomes == {"review", "null", "failed"}

\* Variant: a client whose endpoints answer.
ClientOutcomesWorking == {"review", "null", "failed"}

\* CodeRabbitClient.triggerReview and getReviewStatus throw on every call.
ClientOutcomes == {"failed"}

\* The reviews the remote can answer a request with: the one asked for by id,
\* any when the request names a pull request.
RemoteReviews(key) == IF key \in ReviewIds THEN {key} ELSE ReviewIds

\* The texts a handler returns.
ResultsText == "## CodeRabbit Review Results"
NotFoundText == "No review found with the specified parameters."
StatusErrorText == "Error getting review status"
StartedText == "## CodeRabbit Review Started"
TriggerErrorText == "Error triggering review"

\* Variant: getReviewStatus without the cache lookup in front of the remote
\* call.
GetReviewStatusUncached(p) ==
    /\ Len(pending) < MaxPending
    /\ pending' = Append(pending, [tool |-> "getReviewStatus",
                                   key |-> StatusKey(p)])
    /\ last' = Call("getReviewStatus", StatusKey(p), Null, Null, NoKey, "remote")
    /\ setLog' = Void
    /\ UNCHANGED <<cache, defaultTTL, maxSize, cleanupInterval, hits, misses,
                   now, gets, git, rateLimiter>>

\* getReviewStatus up to its answer from the cache or its remote call.
GetReviewStatus(p) ==
    LET key == StatusKey(p)
        review == IF key = NoKey THEN Null ELSE GetRet(cache, key, now)
    IN  /\ key # NoKey => gets < MaxGets /\ hits + misses < MaxGets
        /\ cache' = IF key = NoKey THEN cache ELSE GetCache(cache, key, now)
        /\ hits' = IF key = NoKey THEN hits ELSE GetHits(cache, key, now, hits)
        /\ misses' = IF key = NoKey THEN misses
                     ELSE GetMisses(cache, key, now, misses)
        /\ gets' = IF key = NoKey THEN gets ELSE gets + 1
        /\ IF review # Null
           THEN /\ pending' = pending
                /\ last' = Call("getReviewStatus", key, review, ResultsText,
                                NoKey, "cached")
           ELSE /\ Len(pending) < MaxPending
                /\ pending' = Append(pending, [tool |-> "getReviewStatus",
                                               key |-> key])
                /\ last' = Call("getReviewStatus", key, Null, Null, NoKey,
                                "remote")
        /\ setLog' = Void
        /\ UNCHANGED <<defaultTTL, maxSize, cleanupInterval, now, git,
                       rateLimiter>>

\* pending without its i-th call.
Without(calls, i) == SubSeq(calls, 1, i - 1) \o SubSeq(calls, i + 1, Len(calls))

\* getReviewStatus from the return of its remote call to its answer.
GetReviewStatusResumed(i, outcome, id) ==
    /\ pending[i].tool = "getReviewStatus"
    /\ pending' = Without(pending, i)
    /\ IF outcome = "review"
       THEN /\ cache' = SetCache(cache, maxSize, id, id, Undefined, defaultTTL,
                                 now)
            /\ last' = Call("getReviewStatusResumed", pending[i].key, id,
                            ResultsText, Evicted(cache, maxSize), outcome)
       ELSE /\ cache' = cache
            /\ last' = Call("getReviewStatusResumed", pending[i].key, Null,
                            IF outcome = "null" THEN NotFoundText
                            ELSE StatusErrorText,
                            NoKey, outcome)
    /\ setLog' = Void
    /\ UNCHANGED <<defaultTTL, maxSize, cleanupInterval, hits, misses, now,
                   gets, git, rateLimiter>>

\* triggerReview up to its remote call.
TriggerReview(p) ==
    /\ Len(pending) < MaxPending
    /\ pending' = Append(pending, [tool |-> "triggerReview",
                                   key |-> TriggerKey(p)])
    /\ last' = Call("triggerReview", TriggerKey(p), Null, Null, NoKey, "remote")
    /\ setLog' = Void
    /\ UNCHANGED <<cache, defaultTTL, maxSize, cleanupInterval, hits, misses,
                   now, gets, git, rateLimiter>>

\* triggerReview from the return of its remote call to its answer.
TriggerReviewResumed(i, outcome, id) ==
    /\ pending[i].tool = "triggerReview"
    /\ outcome # "null"
    /\ pending' = Without(pending, i)
    /\ IF outcome = "review"
       THEN LET byId == SetCache(cache, maxSize, id, id, Undefined,
                                 defaultTTL, now)
            IN  /\ cache' = IF pending[i].key = NoKey THEN byId
                            ELSE SetCache(byId, maxSize, pending[i].key, id,
                                          Undefined, defaultTTL, now)
                /\ last' = Call("triggerReviewResumed", pending[i].key, id,
                                StartedText, NoKey, outcome)
       ELSE /\ cache' = cache
            /\ last' = Call("triggerReviewResumed", pending[i].key, Null,
                            TriggerErrorText, NoKey, outcome)
    /\ setLog' = Void
    /\ UNCHANGED <<defaultTTL, maxSize, cleanupInterval, hits, misses, now,
                   gets, git, rateLimiter>>

\* The server: its handlers, the cache's timer, the cleanup driver of
\* index.ts, and the clock.
NextServerWith(outcomes) ==
    \/ \E p \in StatusParams : GetReviewStatus(p)
    \/ \E i \in 1..Len(pending), o \in outcomes :
         \E id \in RemoteReviews(pending[i].key) :
            GetReviewStatusResumed(i, o, id)
    \/ \E p \in TriggerParams : TriggerReview(p)
    \/ \E i \in 1..Len(pending), o \in outcomes, id \in ReviewIds :
         TriggerReviewResumed(i, o, id)
    \/ Cleanup
    \/ Sweep
    \/ Tick

\* `new SimpleCache<CodeRabbitReview>(CACHE_TTL)`
InitServer == InitWith({MaxCap})

\* The handlers over a remote API that may answer.
NextHandlers == NextServerWith(RemoteOutcomes)

SpecHandlers == InitServer /\ [][NextHandlers]_vars

\* The handlers over CodeRabbitClient as it is.
NextServer == NextServerWith(ClientOutcomes)

SpecServer == InitServer /\ [][NextServer]_vars

\* ------------------------------------------------------------ GitHub
\* github-integration.ts: GitHubIntegration over the GitHub API and the local
\* repository. Each method is one step; what the API and git answer is the
\* step's input.

Branches == {MainBranch, "b1", "b2"}

\* The repositories a call can find: the checked-out branch exists.
RepoStates ==
    {g \in [branches : SUBSET Branches, head : Branches, clean : BOOLEAN] :
        g.head \in g.branches}

\* `if (this.rateLimiter.remaining < 100)`
LowRemaining == 100

\* core.remaining as rateLimit.get reports it: none left, few, all.
RemainingValues == {0, LowRemaining - 1, InitialRemaining}

\* What rateLimit.get answers: a rejection, or a number of requests left.
RateAnswers ==
    {[ok |-> FALSE, remaining |-> 0]}
    \cup {[ok |-> TRUE, remaining |-> n] : n \in RemainingValues}

RateLimitError == "GitHub API rate limit exceeded"
UncleanError == "Repository has uncommitted changes"
ExistsError == "Branch already exists locally"

\* checkRateLimit(): the error raised inside its try block, "" when none.
RateLimitRaised(answer) ==
    IF ~answer.ok THEN "rateLimit.get failed"
    ELSE IF answer.remaining = 0 THEN RateLimitError
    ELSE ""

\* checkRateLimit(): the error that leaves it. Its catch clause takes every
\* error of the try block, the one the block throws itself included, warns
\* and returns.
RateLimitThrown(answer) == IF RateLimitRaised(answer) # "" THEN "" ELSE ""

\* checkRateLimit(): rateLimiter after the call.
RateLimiterAfter(r, answer) ==
    IF answer.ok THEN [r EXCEPT !.remaining = answer.remaining] ELSE r

\* The four methods that call the API, and the request each makes itself.
ApiOps ==
    {"createPullRequest", "getCodeRabbitComments", "getCodeRabbitReviews",
     "askCodeRabbit"}

OwnRequest(op) ==
    CASE op = "createPullRequest" -> "pulls.create"
      [] op = "getCodeRabbitComments" -> "issues.listComments"
      [] op = "getCodeRabbitReviews" -> "pulls.listReviews"
      [] OTHER -> "issues.createComment"

\* The API requests a method makes: the rate-limit query, then its own unless
\* checkRateLimit threw.
ApiRequests(op, answer) ==
    <<"rateLimit.get">>
    \o (IF RateLimitThrown(answer) = "" THEN <<OwnRequest(op)>> ELSE <<>>)

\* What a method returns ("ok") or throws.
ApiResult(op, answer, requestOk) ==
    IF RateLimitThrown(answer) # "" THEN RateLimitThrown(answer)
    ELSE IF requestOk THEN "ok" ELSE "request failed"

\* createPullRequest, getCodeRabbitComments, getCodeRabbitReviews and
\* askCodeRabbit.
ApiOperation(op, answer, requestOk) ==
    /\ rateLimiter' = RateLimiterAfter(rateLimiter, answer)
    /\ last' = Call(op, NoKey, ApiRequests(op, answer),
                    ApiResult(op, answer, requestOk), NoKey,
                    RateLimitRaised(answer))
    /\ UNCHANGED <<cache, defaultTTL, maxSize, cleanupInterval, hits, misses,
                   now, gets, setLog, pending, git>>

\* The calls of pushChangesAndCreatePR that can reject, in order; "none" when
\* none does.
FailPoints ==
    {"none", "status", "branchLocal", "checkoutLocalBranch", "add", "commit",
     "push", "createPullRequest"}

\* The error that ends the try block, "none" when it returns the pull request.
PushFailure(g, branch, failAt) ==
    IF failAt = "status" THEN "status"
    ELSE IF ~g.clean THEN UncleanError
    ELSE IF failAt = "branchLocal" THEN "branchLocal"
    ELSE IF branch \in g.branches THEN ExistsError
    ELSE failAt

\* The git and API calls the try block makes until it ends.
PushCalls ==
    <<"status", "branchLocal", "checkoutLocalBranch", "add", "commit", "push",
      "createPullRequest">>

PushReached(failure) ==
    CASE failure \in {"status", UncleanError} -> 1
      [] failure \in {"branchLocal", ExistsError} -> 2
      [] failure = "checkoutLocalBranch" -> 3
      [] failure = "add" -> 4
      [] failure = "commit" -> 5
      [] failure = "push" -> 6
      [] OTHER -> 7

Cmd(c, a) == [cmd |-> c, arg |-> a]

TryLog(branch, failure) ==
    [i \in 1..PushReached(failure) |->
        Cmd(PushCalls[i], IF i \in {3, 6, 7} THEN branch ELSE "")]

\* The repository when the try block ends: checkoutLocalBranch created the
\* branch and switched to it.
AfterTry(g, branch, failure) ==
    IF PushReached(failure) > 3 \/ failure = "none"
    THEN [g EXCEPT !.branches = @ \cup {branch}, !.head = branch]
    ELSE g

\* The catch clause: checkout of the original branch, then, if that
\* succeeded, a forced delete of params.branch, which git refuses for a
\* branch that does not exist or is checked out.
AfterRollback(g, original, branch, restoreOk) ==
    IF ~restoreOk THEN g
    ELSE [g EXCEPT !.head = original,
                   !.branches = IF branch # original THEN @ \ {branch} ELSE @]

RollbackLog(original, branch, restoreOk) ==
    <<Cmd("checkout", original)>>
    \o (IF restoreOk THEN <<Cmd("deleteLocalBranch", branch)>>
        ELSE <<Cmd("console.error", "Failed to restore original branch")>>)

\* Variant: an error of the rollback leaves the catch clause in place of the
\* one caught.
PushThrownFromRollback(failure, restoreOk) ==
    IF restoreOk THEN failure ELSE "checkout"

\* `throw error`: the error caught, whatever the rollback did.
PushThrown(failure, restoreOk) == failure

\* pushChangesAndCreatePR(params) from the recording of the original branch
\* to its return or throw.
PushChangesAndCreatePR(branch, failAt, restoreOk, answer) ==
    LET original == git.head
        failure == PushFailure(git, branch, failAt)
        tried == AfterTry(git, branch, failure)
    IN  /\ git' = IF failure = "none" THEN tried
                  ELSE AfterRollback(tried, original, branch, restoreOk)
        /\ rateLimiter' = IF PushReached(failure) = 7
                          THEN RateLimiterAfter(rateLimiter, answer)
                          ELSE rateLimiter
        /\ last' = Call("pushChangesAndCreatePR", branch,
                        IF failure = "none" THEN TryLog(branch, failure)
                        ELSE TryLog(branch, failure)
                             \o RollbackLog(original, branch, restoreOk),
                        IF failure = "none" THEN "pr"
                        ELSE PushThrown(failure, restoreOk),
                        NoKey, failure)
        /\ UNCHANGED <<cache, defaultTTL, maxSize, cleanupInterval, hits,
                       misses, now, gets, setLog, pending>>

\* A GitHubIntegration just constructed, in any repository; the cache takes
\* no part. The data slot of last holds the calls a method made.
InitGitHub ==
    /\ cache = <<>>
    /\ defaultTTL = MaxTTL
    /\ maxSize = MaxCap
    /\ cleanupInterval = Armed
    /\ hits = 0
    /\ misses = 0
    /\ now = 0
    /\ last = Call("new", NoKey, <<>>, Null, NoKey, "")
    /\ gets = 0
    /\ setLog = Void
    /\ pending = <<>>
    /\ git \in RepoStates
    /\ rateLimiter = [remaining |-> InitialRemaining]

NextGitHub ==
    \/ \E op \in ApiOps, answer \in RateAnswers, requestOk \in BOOLEAN :
         ApiOperation(op, answer, requestOk)
    \/ \E branch \in Branches, failAt \in FailPoints, restoreOk \in BOOLEAN,
          answer \in RateAnswers :
         PushChangesAndCreatePR(branch, failAt, restoreOk, answer)

SpecGitHub == InitGitHub /\ [][NextGitHub]_vars

\* ------------------------------------------------------------ properties
Active == cleanupInterval = Armed

\* The step just taken is a call of op (every action records itself in last).
Step(op) == last'.op = op

Stale(m, k, t) == MapHas(m, k) /\ t - MapGet(m, k).timestamp > MapGet(m, k).ttl

Fresh(m, k, t) == MapHas(m, k) /\ t - MapGet(m, k).timestamp <= MapGet(m, k).ttl

\* The entries of m stored under keys other than k, in order.
Others(m, k) == SelectSeq(m, LAMBDA e : e.key # k)

\* C1: with maxSize >= 1 and non-empty keys, the number of stored entries is
\* at most maxSize in every reachable state.
C1_CapacityBound == Len(cache) <= maxSize

\* C1's case: a set on a cache of the largest capacity, already full, evicted
\* an entry and left the cache full.
C1_Witness ==
    /\ last.op = "set"
    /\ last.evicted # NoKey
    /\ maxSize = MaxCap
    /\ Len(cache) = maxSize

\* C2: get on an entry whose age exceeds its ttl returns null, removes the
\* entry (and only it), adds one to misses and leaves hits alone, whether or
\* not a sweep ran since the entry became stale.
C2_StaleGet ==
    [][\A k \in NonEmptyKeys :
        (Step("get") /\ last'.key = k /\ Stale(cache, k, now))
        => /\ last'.ret = Null
           /\ ~MapHas(cache', k)
           /\ cache' = Others(cache, k)
           /\ misses' = misses + 1
           /\ hits' = hits]_vars

\* C2's case: a get found its entry stale while the sweep was armed and other
\* entries were stored.
C2_Witness ==
    /\ last.op = "get"
    /\ last.branch = "expired"
    /\ Active
    /\ Len(cache) >= 1

\* C3: get on a present entry of age <= ttl returns the entry's data, adds one
\* to hits and leaves misses and the Map alone; get on an absent key returns
\* null, adds one to misses and leaves hits and the Map alone. The data of an
\* entry is the value of the most recent set of its key: set stores its data
\* argument under its key, and no step changes the data stored under another
\* key.
C3_FreshAndAbsentGet ==
    [][/\ \A k \in NonEmptyKeys :
            (Step("get") /\ last'.key = k /\ Fresh(cache, k, now))
            => /\ last'.ret = MapGet(cache, k).data
               /\ hits' = hits + 1
               /\ misses' = misses
               /\ cache' = cache
       /\ \A k \in NonEmptyKeys :
            (Step("get") /\ last'.key = k /\ ~MapHas(cache, k))
            => /\ last'.ret = Null
               /\ misses' = misses + 1
               /\ hits' = hits
               /\ cache' = cache
       /\ Step("set")
            => /\ MapHas(cache', last'.key)
               /\ MapGet(cache', last'.key).data = last'.data
       /\ \A k \in NonEmptyKeys :
            (MapHas(cache, k) /\ MapHas(cache', k)
                /\ ~(Step("set") /\ last'.key = k))
            => MapGet(cache', k).data = MapGet(cache, k).data]_vars

\* C3's case: a get hit an entry whose age is exactly its ttl and returned its
\* data.
C3_Witness ==
    /\ last.op = "get"
    /\ last.branch = "hit"
    /\ MapHas(cache, last.key)
    /\ now - MapGet(cache, last.key).timestamp = MapGet(cache, last.key).ttl
    /\ MapGet(cache, last.key).ttl > 0
    /\ last.ret = MapGet(cache, last.key).data

\* C4: while the cache is Active, hits + misses is the number of get calls
\* (has included) since construction or the last clear, and each such call
\* adds one to exactly one of the two counters.
C4_LookupsCounted ==
    /\ [](Active => hits + misses = gets)
    /\ [][(Active /\ (Step("get") \/ Step("has")))
            => \/ hits' = hits + 1 /\ misses' = misses
               \/ hits' = hits /\ misses' = misses + 1]_vars

\* C4's case: two lookups were made, one counted as a hit and one as a miss.
C4_Witness ==
    /\ Active
    /\ hits = 1
    /\ misses = 1
    /\ gets = 2
    /\ last.op \in {"get", "has"}

\* C5: the entry a set evicts has the smallest timestamp (insertedAt) of the
\* entries stored just before the eviction.
C5_EvictsEarliest ==
    [][(Step("set") /\ last'.evicted # NoKey)
        => \A i \in 1..Len(cache) :
              MapGet(cache, last'.evicted).timestamp <= cache[i].timestamp]_vars

C7_SetEvictsOne ==
    [][Step("set")
        => LET k == last'.key
               ev == last'.evicted
           IN  /\ MapHas(cache', k)
               /\ Len(cache) >= maxSize
                    => /\ ev \in MapKeys(cache)
                       /\ ev # k => ~MapHas(cache', ev)
                       /\ ev = k => cache'[Len(cache')].key = k
                       /\ Others(cache', k) = Others(Others(cache, ev), k)
               /\ Len(cache) < maxSize
                    => /\ ev = NoKey
                       /\ Others(cache', k) = Others(cache, k)
                       /\ MapKeys(cache') = MapKeys(cache) \cup {k}]_vars

\* C7's case: a set of a key that was not stored found the cache full.
C7_Witness ==
    /\ last.op = "set"
    /\ last.evicted # NoKey
    /\ last.evicted # last.key
    /\ cache[Len(cache)].key = last.key

\* C8: has(k) returns true exactly when get(k) in the same state returns a
\* value other than null, and changes the Map, hits and misses as that get
\* does.
C8_HasIsGet ==
    [][\A k \in NonEmptyKeys :
        (Step("has") /\ last'.key = k)
        => /\ (last'.ret = "true") <=> (GetRet(cache, k, now) # Null)
           /\ last'.ret \in {"true", "false"}
           /\ cache' = GetCache(cache, k, now)
           /\ hits' = GetHits(cache, k, now, hits)
           /\ misses' = GetMisses(cache, k, now, misses)]_vars

\* C8's case: a has found its entry stale, answered false and removed it.
C8_Witness ==
    /\ last.op = "has"
    /\ last.branch = "expired"
    /\ last.ret = "false"
    /\ misses >= 1

\* C9: delete(k) is always possible; it removes k's entry when there is one,
\* changes nothing when there is none, and leaves the other entries, their
\* order and the counters as they were.
C9_DeleteFrame ==
    /\ [](\A k \in NonEmptyKeys : ENABLED Delete(k))
    /\ [][\A k \in NonEmptyKeys :
            (Step("delete") /\ last'.key = k)
            => /\ ~MapHas(cache', k)
               /\ Others(cache', k) = Others(cache, k)
               /\ ~MapHas(cache, k) => cache' = cache
               /\ hits' = hits
               /\ misses' = misses]_vars

\* C9's case: a delete removed an entry, leaving others, after lookups had
\* been counted.
C9_Witness ==
    /\ last.op = "delete"
    /\ last.branch = "present"
    /\ Len(cache) >= 1
    /\ hits + misses >= 1

\* C10: clear empties the Map and zeroes hits and misses, so that getStats
\* then reports size 0 and no hitRate; it leaves maxSize, defaultTTL and the
\* timer as they were, so an Active cache stays Active.
C10_ClearResets ==
    [][Step("clear")
        => /\ cache' = <<>>
           /\ hits' = 0
           /\ misses' = 0
           /\ GetStats(cache', maxSize', hits', misses').size = 0
           /\ GetStats(cache', maxSize', hits', misses').hitRate = <<>>
           /\ maxSize' = maxSize
           /\ defaultTTL' = defaultTTL
           /\ cleanupInterval' = cleanupInterval]_vars

\* C10's case: an Active cache that had counted lookups was cleared.
C10_Witness ==
    /\ last.op = "clear"
    /\ last.branch = "counted"
    /\ Active

\* C11: cleanup, called by the owner or by the timer, removes every entry
\* whose age exceeds its ttl and no entry of age <= ttl; the entries that stay
\* keep their data, timestamp, ttl and order.
C11_CleanupExact ==
    [][(Step("cleanup") \/ Step("sweep"))
        => /\ cache' = SelectSeq(cache, LAMBDA e : now - e.timestamp <= e.ttl)
           /\ \A k \in NonEmptyKeys :
                /\ Stale(cache, k, now) => ~MapHas(cache', k)
                /\ Fresh(cache, k, now)
                   => MapHas(cache', k) /\ MapGet(cache', k) = MapGet(cache, k)]_vars

\* C11's case: a cleanup removed stale entries and left a fresh one.
C11_Witness ==
    /\ last.op = "cleanup"
    /\ last.branch = "removed"
    /\ Len(cache) >= 1

\* C12: destroy is always possible; it empties the Map, zeroes hits and misses
\* and clears the timer handle, and a destroy that follows a destroy leaves
\* the Map, the counters, the timer handle, maxSize and defaultTTL as the
\* first one left them.
C12_DestroyTwice ==
    /\ [](ENABLED Destroy)
    /\ [][Step("destroy")
            => /\ cache' = <<>>
               /\ hits' = 0
               /\ misses' = 0
               /\ cleanupInterval' = NoTimer
               /\ last.op = "destroy"
                  => <<cache', hits', misses', cleanupInterval', maxSize',
                       defaultTTL'>>
                     = <<cache, hits, misses, cleanupInterval, maxSize,
                         defaultTTL>>]_vars

\* C12's case: a second destroy ran right after the first.
C12_Witness ==
    /\ last.op = "destroy"
    /\ last.branch = "again"
    /\ cleanupInterval = NoTimer

\* C13: once the timer handle is null it stays null and the timer's callback
\* takes no step; the handle goes from armed to null only in a destroy step.
C13_NoSweepAfterDestroy ==
    [][/\ cleanupInterval = NoTimer
          => cleanupInterval' = NoTimer /\ ~Step("sweep")
       /\ (cleanupInterval = Armed /\ cleanupInterval' = NoTimer)
          => Step("destroy")]_vars

\* C13's case: a destroyed cache was written to again and time passed until
\* an entry went stale, which a sweep still running would remove.
C13_Witness ==
    /\ cleanupInterval = NoTimer
    /\ last.op = "tick"
    /\ SomeExpired(cache, now)

\* C14: in a destroyed cache the Map stays empty and both counters stay 0,
\* whatever is called.
C14_DestroyedStaysEmpty ==
    cleanupInterval = NoTimer => cache = <<>> /\ hits = 0 /\ misses = 0

\* C15: getStats changes nothing and returns size = the number of stored
\* entries, maxSize = the constructor's value (which no step changes), hits
\* and misses = the counters, and hitRate undefined exactly when
\* hits + misses = 0, otherwise hits / (hits + misses), which is 0 and not
\* undefined when every lookup missed.
C15_StatsPure ==
    [][/\ maxSize' = maxSize
       /\ Step("getStats")
          => /\ UNCHANGED <<cache, defaultTTL, maxSize, cleanupInterval, hits,
                            misses, now>>
             /\ last'.ret.size = Len(cache)
             /\ last'.ret.maxSize = maxSize
             /\ last'.ret.hits = hits
             /\ last'.ret.misses = misses
             /\ (last'.ret.hitRate = <<>>) <=> (hits + misses = 0)
             /\ hits + misses > 0
                => last'.ret.hitRate = <<hits, hits + misses>>
             /\ (hits = 0 /\ misses > 0)
                => last'.ret.hitRate # <<>> /\ last'.ret.hitRate[1] = 0]_vars

\* C15's case: getStats was called when every lookup so far had missed, and
\* reported a hitRate of 0 / misses.
C15_Witness ==
    /\ last.op = "getStats"
    /\ hits = 0
    /\ misses >= 1
    /\ last.ret.hitRate = <<0, misses>>
    /\ last.ret.size >= 1

\* C16: in every state, set(k, v) and set(k, v, 0) leave the Map that
\* set(k, v, defaultTTL) leaves, so that a get of k at any later time returns
\* the same; and a set that took the default stored ttl = defaultTTL.
C16_DefaultTTL ==
    /\ \A k \in NonEmptyKeys, d \in Values, ttl \in {Undefined, 0} :
         LET dflt == SetCache(cache, maxSize, k, d, defaultTTL, defaultTTL, now)
             omit == SetCache(cache, maxSize, k, d, ttl, defaultTTL, now)
         IN  /\ omit = dflt
             /\ \A t \in now..MaxTime : GetRet(omit, k, t) = GetRet(dflt, k, t)
    /\ (last.op = "set" /\ last.branch = "default")
       => /\ MapHas(cache, last.key)
          /\ MapGet(cache, last.key).ttl = defaultTTL

\* C16's case: a set without a usable ttl stored its entry in a Map that
\* holds an entry with a ttl of its own.
C16_Witness ==
    /\ last.op = "set"
    /\ last.branch = "default"
    /\ \E i \in 1..Len(cache) : cache[i].ttl # defaultTTL

\* C17: a step that raises hits or misses is a get or a has; set, delete,
\* cleanup, the timer's sweep and getStats leave both as they were; clear and
\* destroy leave both at 0.
C17_OnlyGetCounts ==
    [][/\ (hits' > hits \/ misses' > misses) => (Step("get") \/ Step("has"))
       /\ (Step("set") \/ Step("delete") \/ Step("cleanup") \/ Step("sweep")
           \/ Step("getStats") \/ Step("tick"))
          => hits' = hits /\ misses' = misses
       /\ (Step("clear") \/ Step("destroy")) => hits' = 0 /\ misses' = 0]_vars

\* C17's case: the timer's sweep removed entries of a cache that had counted
\* a hit and a miss.
C17_Witness ==
    /\ last.op = "sweep"
    /\ last.branch = "removed"
    /\ hits >= 1
    /\ misses >= 1

\* C18: a set of a key the Map holds removes no other key.
C18_OverwriteNeverEvicts ==
    [][(Step("set") /\ MapHas(cache, last'.key))
        => MapKeys(cache) \subseteq MapKeys(cache')]_vars

\* C19: a cache constructed with maxSize = 0 never holds an entry.
C19_ZeroCapEmpty == maxSize = 0 => Len(cache) = 0

\* C20: a cleanup of a Map that cleanup just left changes nothing: cleanup
\* composed with itself at one time is cleanup, and a cleanup or sweep step
\* that follows a cleanup or sweep step leaves the cache as it found it.
C20_CleanupIdempotent ==
    /\ [](CleanupCache(CleanupCache(cache, now), now) = CleanupCache(cache, now))
    /\ [][((Step("cleanup") \/ Step("sweep"))
           /\ last.op \in {"cleanup", "sweep"})
          => UNCHANGED <<cache, defaultTTL, maxSize, cleanupInterval, hits,
                         misses, now>>]_vars

\* C20's case: the owner's cleanup ran right after a cleanup that had removed
\* stale entries and left fresh ones.
C20_Witness ==
    /\ last.op = "cleanup"
    /\ last.branch = "again"
    /\ Len(cache) >= 1

\* C21: under a timer that keeps firing, whenever an Active cache holds a
\* stale entry, a state follows in which the Map holds no stale entry; a stale
\* entry stays stale as long as it is stored, so each one has left the Map by
\* then, whether or not its key was looked up or deleted.
C21_StaleEventuallySwept ==
    (Active /\ SomeExpired(cache, now)) ~> ~SomeExpired(cache, now)

\* C21's case: the timer's sweep removed stale entries of a cache on which no
\* lookup had been made.
C21_Witness ==
    /\ last.op = "sweep"
    /\ last.branch = "removed"
    /\ gets = 0
    /\ hits + misses = 0

\* C24: the number of stored entries is at most maxSize also when the empty
\* string is one of the keys.
C24_CapacityWithEmptyKey == Len(cache) <= maxSize

\* C25: a set on a full cache removes the first entry in insertion order and
\* no other, and a set on a cache that is not full removes none: every entry
\* stored under a key other than the first and the one set, stale or fresh,
\* is still stored after the set.
C25_EvictionIgnoresStaleness ==
    [][Step("set")
        => /\ Len(cache) >= maxSize
              => cache' = MapSet(Tail(cache), last'.key,
                                 MapGet(cache', last'.key))
           /\ Len(cache) < maxSize
              => Others(cache', last'.key) = Others(cache, last'.key)
           /\ \A i \in 2..Len(cache) :
                cache[i].key # last'.key => cache[i] \in Range(cache')]_vars

\* C25's case: a set evicted the first entry of a full cache and left a stale
\* entry stored.
C25_Witness ==
    /\ last.op = "set"
    /\ last.evicted # NoKey
    /\ \E i \in 1..Len(cache) :
         cache[i].key # last.key /\ IsExpired(cache[i], now)

\* C26: a get that follows a set returns the same value whether or not a
\* cleanup ran just before the set.
C26_SweepInvisible ==
    \A k \in NonEmptyKeys, j \in NonEmptyKeys, d \in Values :
        GetRet(SetCache(cache, maxSize, k, d, Undefined, defaultTTL, now),
               j, now)
        = GetRet(SetCache(CleanupCache(cache, now), maxSize, k, d, Undefined,
                          defaultTTL, now),
                 j, now)

\* C22: getReviewStatus issues its remote call exactly when the request forms
\* no key or the lookup of its key returned null, and stores nothing before
\* the call returns; when the call returns a review the handler sets it under
\* the review's id, and when it returns null or fails the Map is left as it
\* was.
C22_ReadThrough ==
    [][/\ Step("getReviewStatus")
          => /\ (pending' # pending)
                <=> (last'.key = NoKey \/ GetRet(cache, last'.key, now) = Null)
             /\ pending' # pending
                => pending' = Append(pending, [tool |-> "getReviewStatus",
                                               key |-> last'.key])
             /\ Range(cache') \subseteq Range(cache)
       /\ Step("getReviewStatusResumed")
          => /\ Len(pending') = Len(pending) - 1
             /\ last'.branch = "review"
                => cache' = SetCache(cache, maxSize, last'.data, last'.data,
                                     Undefined, defaultTTL, now)
             /\ last'.branch # "review" => cache' = cache]_vars

\* C22's case: a remote call failed while the cache held entries, and the
\* handler answered with its error text.
C22_Witness ==
    /\ last.op = "getReviewStatusResumed"
    /\ last.branch = "failed"
    /\ last.key # NoKey
    /\ Len(cache) >= 1

\* C27: when getReviewStatus has answered a request for a key from the remote,
\* the key's entry is stored and fresh, so that the same request made next is
\* answered from the cache.
C27_SecondRequestCached ==
    [][(Step("getReviewStatusResumed") /\ last'.branch = "review"
        /\ last'.key # NoKey)
        => GetOutcome(cache', last'.key, now') = "hit"]_vars

C29_KeepsExistingBranches ==
    [][(Step("pushChangesAndCreatePR")
        /\ last'.branch \in {ExistsError, UncleanError})
        => git'.branches = git.branches]_vars

\* C30: a method whose rate-limit query reports remaining = 0 throws the
\* rate-limit error and does not make its own request.
C30_RateLimitStops ==
    [][(last'.op \in ApiOps /\ last'.branch = RateLimitError)
        => /\ last'.ret = RateLimitError
           /\ \A i \in 1..Len(last'.data) :
                last'.data[i] # OwnRequest(last'.op)]_vars

====
